---- MODULE Spec2Model ----
(***************************************************************************)
(* Model of src/hello.go: main() creates two libp2p hosts, a DHT on each,  *)
(* bootstraps and connects them, waits for both routing tables to          *)
(* populate (two polling goroutines joined by a sync.WaitGroup), then      *)
(* stores one record from host2 and fetches it from host1, each in a       *)
(* bounded retry loop.  The libp2p/kad-dht library is the environment: its *)
(* calls return nondeterministically, its routing tables, its connection   *)
(* state and the context deadline change by environment actions.           *)
(***************************************************************************)
EXTENDS Integers, Sequences, FiniteSets

VARIABLES
    pc,             \* position of main()
    attempt,        \* loop variable `attempt` of the running retry loop
    err,            \* main's variable `err`
    retrievedValue, \* main's variable `retrievedValue`
    defers,         \* main's stack of deferred calls (last registered first)
    exitCode,       \* process exit status once pc = "exited", else NoExit
    fatal,          \* what logger.Fatalf reported, else NoFatal
    output,         \* what fmt.Printf at the end printed, else NoValue
    hostState,      \* per host: "absent", "open", "closed"
    dhtInit,        \* per node: dht.New returned
    bootstrapped,   \* per node: Bootstrap returned nil
    conn,           \* host2.Network().Connectedness(host1.ID())
    wg,             \* the sync.WaitGroup counter
    gpc,            \* position of each polling goroutine
    lastRead,       \* what the goroutine's last loop test read: "none", "empty", "nonempty"
    pollDelays,     \* time.Sleep calls made by each polling goroutine, counted up to MaxPolls
    rtSize,         \* dhtN.RoutingTable().Size()
    store,          \* records held by the DHT, per key
    deadline,       \* ctxTimeout: "none", "armed", "expired", "cancelled"
    trace           \* library calls and sleeps made by main(), in order

vars == <<pc, attempt, err, retrievedValue, defers, exitCode, fatal, output,
          hostState, dhtInit, bootstrapped, conn, wg, gpc, lastRead,
          pollDelays, rtSize, store, deadline, trace>>

mainVars == <<pc, attempt, err, retrievedValue, defers, exitCode, fatal, output, trace>>
nodeVars == <<hostState, dhtInit, bootstrapped>>
pollVars == <<wg, gpc, lastRead, pollDelays>>
envVars  == <<conn, rtSize, store, deadline>>

----------------------------------------------------------------------------
(* Bounds of the model *)
MaxRtSize == 1
MaxPolls  == 1

(* Program constants *)
maxRetries == 3

Nodes == {1, 2}

key      == "/myapp/testkey"
value    == "Hello, libp2p DHT!"
NoValue  == "nil"
Keys     == {key}

NoErr            == "nil"
ErrTransient     == "transient"
ErrOther         == "other"
ErrNotFound      == "routing: not found"
DeadlineExceeded == "context deadline exceeded"
Errors           == {ErrTransient, ErrOther}

NoExit  == 0 - 1
NoFatal == [step |-> "none", attempts |-> 0, cause |-> NoErr]

Event(op, n, res) == [op |-> op, n |-> n, res |-> res]

Results == {NoErr} \cup Errors

(* logger.Fatalf: log the message, then os.Exit(1); deferred calls do not run *)
Fatalf(step, n, cause) ==
    /\ pc' = "exited"
    /\ exitCode' = 1
    /\ fatal' = [step |-> step, attempts |-> n, cause |-> cause]

Log(op, n, res) == trace' = Append(trace, Event(op, n, res))

----------------------------------------------------------------------------
Init ==
    /\ pc = "NewHost1"
    /\ attempt = 0
    /\ err = NoErr
    /\ retrievedValue = NoValue
    /\ defers = <<>>
    /\ exitCode = NoExit
    /\ fatal = NoFatal
    /\ output = NoValue
    /\ hostState = [n \in Nodes |-> "absent"]
    /\ dhtInit = [n \in Nodes |-> FALSE]
    /\ bootstrapped = [n \in Nodes |-> FALSE]
    /\ conn = "NotConnected"
    /\ wg = 0
    /\ gpc = [n \in Nodes |-> "idle"]
    /\ lastRead = [n \in Nodes |-> "none"]
    /\ pollDelays = [n \in Nodes |-> 0]
    /\ rtSize = [n \in Nodes |-> 0]
    /\ store = [k \in Keys |-> NoValue]
    /\ deadline = "none"
    /\ trace = <<>>

----------------------------------------------------------------------------
(* main(): setup, lines 29-85 *)

NewHost1 ==
    /\ pc = "NewHost1"
    /\ \E r \in Results :
        /\ err' = r
        /\ Log("libp2p.New", 1, r)
        /\ IF r = NoErr
             THEN /\ hostState' = [hostState EXCEPT ![1] = "open"]
                  /\ pc' = "NewHost2"
                  /\ UNCHANGED <<exitCode, fatal>>
             ELSE /\ Fatalf("create host1", 0, r)
                  /\ UNCHANGED hostState
    /\ UNCHANGED <<attempt, retrievedValue, defers, output, dhtInit, bootstrapped,
                   pollVars, envVars>>

NewHost2 ==
    /\ pc = "NewHost2"
    /\ \E r \in Results :
        /\ err' = r
        /\ Log("libp2p.New", 2, r)
        /\ IF r = NoErr
             THEN /\ hostState' = [hostState EXCEPT ![2] = "open"]
                  /\ defers' = <<"host2.Close", "host1.Close">> \o defers
                  /\ pc' = "NewDHT1"
                  /\ UNCHANGED <<exitCode, fatal>>
             ELSE /\ Fatalf("create host2", 0, r)
                  /\ UNCHANGED <<hostState, defers>>
    /\ UNCHANGED <<attempt, retrievedValue, output, dhtInit, bootstrapped,
                   pollVars, envVars>>

DhtNew(n, here, next) ==
    /\ pc = here
    /\ \E r \in Results :
        /\ err' = r
        /\ Log("dht.New", n, r)
        /\ IF r = NoErr
             THEN /\ dhtInit' = [dhtInit EXCEPT ![n] = TRUE]
                  /\ pc' = next
                  /\ UNCHANGED <<exitCode, fatal>>
             ELSE /\ Fatalf("initialize DHT", 0, r)
                  /\ UNCHANGED dhtInit
    /\ UNCHANGED <<attempt, retrievedValue, defers, output, hostState, bootstrapped,
                   pollVars, envVars>>

NewDHT1 == DhtNew(1, "NewDHT1", "NewDHT2")
NewDHT2 == DhtNew(2, "NewDHT2", "Bootstrap1")

(* DhtBootstrap with the failure logged by Printf in place of Fatalf *)
DhtBootstrapNoFatal(n, here, next) ==
    /\ pc = here
    /\ \E r \in Results :
        /\ Log("Bootstrap", n, r)
        /\ bootstrapped' = [bootstrapped EXCEPT ![n] = (r = NoErr)]
        /\ pc' = next
    /\ UNCHANGED <<attempt, err, retrievedValue, defers, exitCode, fatal, output, hostState,
                   dhtInit, pollVars, envVars>>

(* `if err := dhtN.Bootstrap(ctx); err != nil` declares its own err *)
DhtBootstrap(n, here, next) ==
    /\ pc = here
    /\ \E r \in Results :
        /\ Log("Bootstrap", n, r)
        /\ IF r = NoErr
             THEN /\ bootstrapped' = [bootstrapped EXCEPT ![n] = TRUE]
                  /\ pc' = next
                  /\ UNCHANGED <<exitCode, fatal>>
             ELSE /\ Fatalf("bootstrap DHT", 0, r)
                  /\ UNCHANGED bootstrapped
    /\ UNCHANGED <<attempt, err, retrievedValue, defers, output, hostState, dhtInit,
                   pollVars, envVars>>

Bootstrap1 == DhtBootstrap(1, "Bootstrap1", "Bootstrap2")
Bootstrap2 == DhtBootstrap(2, "Bootstrap2", "ParseAddr")

ParseAddr ==
    /\ pc = "ParseAddr"
    /\ \E r \in Results :
        /\ err' = r
        /\ Log("NewMultiaddr", 2, r)
        /\ IF r = NoErr
             THEN pc' = "Connect" /\ UNCHANGED <<exitCode, fatal>>
             ELSE Fatalf("parse multiaddr", 0, r)
    /\ UNCHANGED <<attempt, retrievedValue, defers, output, nodeVars, pollVars, envVars>>

(* host2.Connect: on success the connection to host1 is up *)
Connect ==
    /\ pc = "Connect"
    /\ \E r \in Results :
        /\ Log("Connect", 2, r)
        /\ IF r = NoErr
             THEN /\ conn' = "Connected"
                  /\ pc' = "Verify"
                  /\ UNCHANGED <<exitCode, fatal>>
             ELSE /\ Fatalf("connect", 0, r)
                  /\ UNCHANGED conn
    /\ UNCHANGED <<attempt, err, retrievedValue, defers, output, nodeVars, pollVars,
                   rtSize, store, deadline>>

(* Verify with the result of the check only logged: main goes on either way *)
VerifyIgnored ==
    /\ pc = "Verify"
    /\ Log("Connectedness", 2, conn)
    /\ pc' = "Spawn"
    /\ UNCHANGED <<attempt, err, retrievedValue, defers, exitCode, fatal, output, nodeVars,
                   pollVars, envVars>>

Verify ==
    /\ pc = "Verify"
    /\ Log("Connectedness", 2, conn)
    /\ IF conn = "Connected"
         THEN pc' = "Spawn" /\ UNCHANGED <<exitCode, fatal>>
         ELSE Fatalf("verify connection", 0, NoErr)
    /\ UNCHANGED <<attempt, err, retrievedValue, defers, output, nodeVars, pollVars, envVars>>

----------------------------------------------------------------------------
(* main(): readiness wait, lines 88-107 *)

(* Spawn with wg.Add(1) in place of wg.Add(2) *)
SpawnAddOne ==
    /\ pc = "Spawn"
    /\ wg' = wg + 1
    /\ gpc' = [n \in Nodes |-> "test"]
    /\ pc' = "Wait"
    /\ UNCHANGED <<attempt, err, retrievedValue, defers, exitCode, fatal, output, trace,
                   nodeVars, lastRead, pollDelays, envVars>>

(* wg.Add(2) and the two `go func()` statements *)
Spawn ==
    /\ pc = "Spawn"
    /\ wg' = wg + 2
    /\ gpc' = [n \in Nodes |-> "test"]
    /\ pc' = "Wait"
    /\ UNCHANGED <<attempt, err, retrievedValue, defers, exitCode, fatal, output, trace,
                   nodeVars, lastRead, pollDelays, envVars>>

(* PollTest as a do-while loop: the first pass sleeps whatever the size is *)
PollTestSleepFirst(n) ==
    /\ pc # "exited"
    /\ gpc[n] = "test"
    /\ lastRead' = [lastRead EXCEPT ![n] = IF rtSize[n] = 0 THEN "empty" ELSE "nonempty"]
    /\ gpc' = [gpc EXCEPT ![n] = IF rtSize[n] = 0 \/ pollDelays[n] = 0
                                   THEN "sleep" ELSE "log"]
    /\ UNCHANGED <<mainVars, nodeVars, wg, pollDelays, envVars>>

(* PollTest with both goroutines testing dht1's routing table *)
PollTestReadsDht1(n) ==
    /\ pc # "exited"
    /\ gpc[n] = "test"
    /\ lastRead' = [lastRead EXCEPT ![n] = IF rtSize[1] = 0 THEN "empty" ELSE "nonempty"]
    /\ gpc' = [gpc EXCEPT ![n] = IF rtSize[1] = 0 THEN "sleep" ELSE "log"]
    /\ UNCHANGED <<mainVars, nodeVars, wg, pollDelays, envVars>>

(* the loop test `for dhtN.RoutingTable().Size() == 0` *)
PollTest(n) ==
    /\ pc # "exited"
    /\ gpc[n] = "test"
    /\ lastRead' = [lastRead EXCEPT ![n] = IF rtSize[n] = 0 THEN "empty" ELSE "nonempty"]
    /\ gpc' = [gpc EXCEPT ![n] = IF rtSize[n] = 0 THEN "sleep" ELSE "log"]
    /\ UNCHANGED <<mainVars, nodeVars, wg, pollDelays, envVars>>

(* the loop body: log, time.Sleep *)
PollSleep(n) ==
    /\ pc # "exited"
    /\ gpc[n] = "sleep"
    /\ pollDelays' = [pollDelays EXCEPT ![n] = IF @ < MaxPolls THEN @ + 1 ELSE @]
    /\ gpc' = [gpc EXCEPT ![n] = "test"]
    /\ UNCHANGED <<mainVars, nodeVars, wg, lastRead, envVars>>

(* after the loop: logger.Printf("... populated ...") *)
PollLog(n) ==
    /\ pc # "exited"
    /\ gpc[n] = "log"
    /\ gpc' = [gpc EXCEPT ![n] = "return"]
    /\ UNCHANGED <<mainVars, nodeVars, wg, lastRead, pollDelays, envVars>>

(* PollDone with the deferred wg.Done() left out *)
PollDoneNoSignal(n) ==
    /\ pc # "exited"
    /\ gpc[n] = "return"
    /\ gpc' = [gpc EXCEPT ![n] = "done"]
    /\ UNCHANGED <<mainVars, nodeVars, wg, lastRead, pollDelays, envVars>>

(* the goroutine returns: its deferred wg.Done() runs *)
PollDone(n) ==
    /\ pc # "exited"
    /\ gpc[n] = "return"
    /\ wg' = wg - 1
    /\ gpc' = [gpc EXCEPT ![n] = "done"]
    /\ UNCHANGED <<mainVars, nodeVars, lastRead, pollDelays, envVars>>

(* WgWait with the wg.Wait() call left out *)
WgWaitNoWait ==
    /\ pc = "Wait"
    /\ pc' = "PutInit"
    /\ UNCHANGED <<attempt, err, retrievedValue, defers, exitCode, fatal, output, trace,
                   nodeVars, pollVars, envVars>>

(* wg.Wait() returns when the counter is zero *)
WgWait ==
    /\ pc = "Wait"
    /\ wg = 0
    /\ pc' = "PutInit"
    /\ UNCHANGED <<attempt, err, retrievedValue, defers, exitCode, fatal, output, trace,
                   nodeVars, pollVars, envVars>>

----------------------------------------------------------------------------
(* The DHT library as seen through PutValue and GetValue *)

(* the records the DHT may hold after PutValue(k, v) returned r: on success the
   record is stored; a failed call may have stored it on some peer or not *)
PutValueEffect(k, v, r) ==
    IF r = NoErr
      THEN {[store EXCEPT ![k] = v]}
      ELSE {store, [store EXCEPT ![k] = v]}

(* the (value, error) pairs GetValue(ctxTimeout, k) may return: with the context
   expired it never succeeds (it returns the context's error, with or without
   the best record seen, unless the lookup failed first); otherwise the stored
   record, or a failure *)
GetValueResults(k) ==
    IF deadline = "expired"
      THEN {<<v, DeadlineExceeded>> : v \in {NoValue, store[k]}}
           \cup {<<NoValue, ErrTransient>>}
      ELSE {<<store[k], NoErr>> : x \in IF store[k] = NoValue THEN {} ELSE {1}}
           \cup {<<NoValue, e>> : e \in {ErrTransient, ErrNotFound}}

----------------------------------------------------------------------------
(* main(): store with retry, lines 109-126 *)

PutInit ==
    /\ pc = "PutInit"
    /\ attempt' = 1
    /\ pc' = IF 1 <= maxRetries THEN "PutAttempt" ELSE "GetInit"
    /\ UNCHANGED <<err, retrievedValue, defers, exitCode, fatal, output, trace,
                   nodeVars, pollVars, envVars>>

(* PutAttempt with the `break` left out: a success goes on to the sleep *)
PutAttemptNoBreak ==
    /\ pc = "PutAttempt"
    /\ \E r \in Results :
        /\ err' = r
        /\ Log("PutValue", attempt, r)
        /\ store' \in PutValueEffect(key, value, r)
        /\ IF r # NoErr /\ attempt = maxRetries
             THEN Fatalf("store", maxRetries, r)
             ELSE pc' = "PutSleep" /\ UNCHANGED <<exitCode, fatal>>
    /\ UNCHANGED <<attempt, retrievedValue, defers, output, nodeVars, pollVars,
                   conn, rtSize, deadline>>

(* PutAttempt with the sleep placed before the exhaustion test *)
PutAttemptSleepThenFatal ==
    /\ pc = "PutAttempt"
    /\ \E r \in Results :
        /\ err' = r
        /\ store' \in PutValueEffect(key, value, r)
        /\ IF r = NoErr
             THEN /\ Log("PutValue", attempt, r)
                  /\ pc' = "GetInit"
                  /\ UNCHANGED <<exitCode, fatal>>
             ELSE IF attempt = maxRetries
                    THEN /\ trace' = trace \o <<Event("PutValue", attempt, r),
                                                Event("Sleep", attempt, "put")>>
                         /\ Fatalf("store", maxRetries, r)
                    ELSE /\ Log("PutValue", attempt, r)
                         /\ pc' = "PutSleep"
                         /\ UNCHANGED <<exitCode, fatal>>
    /\ UNCHANGED <<attempt, retrievedValue, defers, output, nodeVars, pollVars,
                   conn, rtSize, deadline>>

(* PutAttempt with the exhaustion test left out: the loop runs out and main
   goes on to the fetch *)
PutAttemptNoFatal ==
    /\ pc = "PutAttempt"
    /\ \E r \in Results :
        /\ err' = r
        /\ Log("PutValue", attempt, r)
        /\ store' \in PutValueEffect(key, value, r)
        /\ pc' = IF r = NoErr THEN "GetInit" ELSE "PutSleep"
    /\ UNCHANGED <<attempt, retrievedValue, defers, exitCode, fatal, output, nodeVars,
                   pollVars, conn, rtSize, deadline>>

(* one pass of the loop body up to the sleep: lines 115-124 *)
PutAttempt ==
    /\ pc = "PutAttempt"
    /\ \E r \in Results :
        /\ err' = r
        /\ Log("PutValue", attempt, r)
        /\ store' \in PutValueEffect(key, value, r)
        /\ IF r = NoErr
             THEN pc' = "GetInit" /\ UNCHANGED <<exitCode, fatal>>
             ELSE IF attempt = maxRetries
                    THEN Fatalf("store", maxRetries, r)
                    ELSE pc' = "PutSleep" /\ UNCHANGED <<exitCode, fatal>>
    /\ UNCHANGED <<attempt, retrievedValue, defers, output, nodeVars, pollVars,
                   conn, rtSize, deadline>>

(* time.Sleep(500ms), then attempt++ and the loop test: lines 125, 114 *)
PutSleep ==
    /\ pc = "PutSleep"
    /\ Log("Sleep", attempt, "put")
    /\ attempt' = attempt + 1
    /\ pc' = IF attempt + 1 <= maxRetries THEN "PutAttempt" ELSE "GetInit"
    /\ UNCHANGED <<err, retrievedValue, defers, exitCode, fatal, output,
                   nodeVars, pollVars, envVars>>

----------------------------------------------------------------------------
(* main(): fetch with retry, lines 128-146 *)

(* context.WithTimeout, defer cancel(), var retrievedValue, attempt := 1 *)
GetInit ==
    /\ pc = "GetInit"
    /\ deadline' = "armed"
    /\ defers' = <<"cancel">> \o defers
    /\ retrievedValue' = NoValue
    /\ attempt' = 1
    /\ pc' = IF 1 <= maxRetries THEN "GetAttempt" ELSE "Print"
    /\ UNCHANGED <<err, exitCode, fatal, output, trace, nodeVars, pollVars,
                   conn, rtSize, store>>

(* the cause of the get loop's first failed attempt, given the current one *)
FirstGetCause(now) ==
    LET gets == {i \in 1..Len(trace) : trace[i].op = "GetValue"}
    IN  IF gets = {} THEN now
        ELSE trace[CHOOSE i \in gets : \A j \in gets : i <= j].res

(* GetAttempt reporting the first attempt's error in place of the last one's *)
GetAttemptFirstCause ==
    /\ pc = "GetAttempt"
    /\ \E res \in GetValueResults(key) :
        /\ retrievedValue' = res[1]
        /\ err' = res[2]
        /\ Log("GetValue", attempt, res[2])
        /\ IF res[2] = NoErr
             THEN pc' = "Print" /\ UNCHANGED <<exitCode, fatal>>
             ELSE IF attempt = maxRetries
                    THEN Fatalf("retrieve", maxRetries, FirstGetCause(res[2]))
                    ELSE pc' = "GetSleep" /\ UNCHANGED <<exitCode, fatal>>
    /\ UNCHANGED <<attempt, defers, output, nodeVars, pollVars, envVars>>

(* GetAttempt with `retrievedValue, err := ...`: the outer variable is not set *)
GetAttemptShadowed ==
    /\ pc = "GetAttempt"
    /\ \E res \in GetValueResults(key) :
        /\ err' = res[2]
        /\ Log("GetValue", attempt, res[2])
        /\ IF res[2] = NoErr
             THEN pc' = "Print" /\ UNCHANGED <<exitCode, fatal>>
             ELSE IF attempt = maxRetries
                    THEN Fatalf("retrieve", maxRetries, res[2])
                    ELSE pc' = "GetSleep" /\ UNCHANGED <<exitCode, fatal>>
    /\ UNCHANGED <<attempt, retrievedValue, defers, output, nodeVars, pollVars, envVars>>

(* GetAttempt leaving the loop on error e without sleeping or retrying *)
GetAttemptFinalOn(e) ==
    /\ pc = "GetAttempt"
    /\ \E res \in GetValueResults(key) :
        /\ retrievedValue' = res[1]
        /\ err' = res[2]
        /\ Log("GetValue", attempt, res[2])
        /\ IF res[2] = NoErr
             THEN pc' = "Print" /\ UNCHANGED <<exitCode, fatal>>
             ELSE IF attempt = maxRetries \/ res[2] = e
                    THEN Fatalf("retrieve", attempt, res[2])
                    ELSE pc' = "GetSleep" /\ UNCHANGED <<exitCode, fatal>>
    /\ UNCHANGED <<attempt, defers, output, nodeVars, pollVars, envVars>>

GetAttemptNotFoundFinal == GetAttemptFinalOn(ErrNotFound)

GetAttemptTimeoutFinal == GetAttemptFinalOn(DeadlineExceeded)

(* one pass of the loop body up to the sleep: lines 134-143 *)
GetAttempt ==
    /\ pc = "GetAttempt"
    /\ \E res \in GetValueResults(key) :
        /\ retrievedValue' = res[1]
        /\ err' = res[2]
        /\ Log("GetValue", attempt, res[2])
        /\ IF res[2] = NoErr
             THEN pc' = "Print" /\ UNCHANGED <<exitCode, fatal>>
             ELSE IF attempt = maxRetries
                    THEN Fatalf("retrieve", maxRetries, res[2])
                    ELSE pc' = "GetSleep" /\ UNCHANGED <<exitCode, fatal>>
    /\ UNCHANGED <<attempt, defers, output, nodeVars, pollVars, envVars>>

(* GetSleep with context.WithTimeout called inside the loop: a fresh deadline
   for every attempt *)
GetSleepRenews ==
    /\ pc = "GetSleep"
    /\ Log("Sleep", attempt, "get")
    /\ attempt' = attempt + 1
    /\ deadline' = "armed"
    /\ pc' = IF attempt + 1 <= maxRetries THEN "GetAttempt" ELSE "Print"
    /\ UNCHANGED <<err, retrievedValue, defers, exitCode, fatal, output,
                   nodeVars, pollVars, conn, rtSize, store>>

(* time.Sleep(500ms), then attempt++ and the loop test: lines 144, 133 *)
GetSleep ==
    /\ pc = "GetSleep"
    /\ Log("Sleep", attempt, "get")
    /\ attempt' = attempt + 1
    /\ pc' = IF attempt + 1 <= maxRetries THEN "GetAttempt" ELSE "Print"
    /\ UNCHANGED <<err, retrievedValue, defers, exitCode, fatal, output,
                   nodeVars, pollVars, envVars>>

(* fmt.Printf("Retrieved value ...") *)
Printf ==
    /\ pc = "Print"
    /\ output' = retrievedValue
    /\ pc' = "Return"
    /\ UNCHANGED <<attempt, err, retrievedValue, defers, exitCode, fatal, trace,
                   nodeVars, pollVars, envVars>>

(* main returns: the deferred calls run, last registered first *)
RunDeferred ==
    /\ pc = "Return"
    /\ defers # <<>>
    /\ defers' = Tail(defers)
    /\ Log(Head(defers), 0, NoErr)
    /\ deadline' = IF Head(defers) = "cancel" THEN "cancelled" ELSE deadline
    /\ hostState' = [n \in Nodes |->
                       IF    (n = 1 /\ Head(defers) = "host1.Close")
                          \/ (n = 2 /\ Head(defers) = "host2.Close")
                         THEN "closed" ELSE hostState[n]]
    /\ UNCHANGED <<pc, attempt, err, retrievedValue, exitCode, fatal, output,
                   dhtInit, bootstrapped, pollVars, conn, rtSize, store>>

(* the process ends with status 0 *)
Exit ==
    /\ pc = "Return"
    /\ defers = <<>>
    /\ pc' = "exited"
    /\ exitCode' = 0
    /\ UNCHANGED <<attempt, err, retrievedValue, defers, fatal, output, trace,
                   nodeVars, pollVars, envVars>>

----------------------------------------------------------------------------
(* The environment: the library's own state changes while the process runs *)

RtAdd(n) ==
    /\ pc # "exited"
    /\ dhtInit[n]
    /\ conn = "Connected"
    /\ rtSize[n] < MaxRtSize
    /\ rtSize' = [rtSize EXCEPT ![n] = @ + 1]
    /\ UNCHANGED <<mainVars, nodeVars, pollVars, conn, store, deadline>>

RtRemove(n) ==
    /\ pc # "exited"
    /\ rtSize[n] > 0
    /\ rtSize' = [rtSize EXCEPT ![n] = @ - 1]
    /\ UNCHANGED <<mainVars, nodeVars, pollVars, conn, store, deadline>>

ConnDrop ==
    /\ pc # "exited"
    /\ conn = "Connected"
    /\ conn' = "NotConnected"
    /\ UNCHANGED <<mainVars, nodeVars, pollVars, rtSize, store, deadline>>

DeadlineExpires ==
    /\ pc # "exited"
    /\ deadline = "armed"
    /\ deadline' = "expired"
    /\ UNCHANGED <<mainVars, nodeVars, pollVars, conn, rtSize, store>>

----------------------------------------------------------------------------
Next ==
    \/ NewHost1
    \/ NewHost2
    \/ NewDHT1
    \/ NewDHT2
    \/ Bootstrap1
    \/ Bootstrap2
    \/ ParseAddr
    \/ Connect
    \/ Verify
    \/ Spawn
    \/ \E n \in Nodes : PollTest(n)
    \/ \E n \in Nodes : PollSleep(n)
    \/ \E n \in Nodes : PollLog(n)
    \/ \E n \in Nodes : PollDone(n)
    \/ WgWait
    \/ PutInit
    \/ PutAttempt
    \/ PutSleep
    \/ GetInit
    \/ GetAttempt
    \/ GetSleep
    \/ Printf
    \/ RunDeferred
    \/ Exit
    \/ \E n \in Nodes : RtAdd(n)
    \/ \E n \in Nodes : RtRemove(n)
    \/ ConnDrop
    \/ DeadlineExpires

(* the steps of the main goroutine *)
MainStep ==
    \/ NewHost1 \/ NewHost2 \/ NewDHT1 \/ NewDHT2 \/ Bootstrap1 \/ Bootstrap2
    \/ ParseAddr \/ Connect \/ Verify \/ Spawn \/ WgWait
    \/ PutInit \/ PutAttempt \/ PutSleep
    \/ GetInit \/ GetAttempt \/ GetSleep
    \/ Printf \/ RunDeferred \/ Exit

(* the steps of the polling goroutine of node n *)
PollStep(n) == PollTest(n) \/ PollSleep(n) \/ PollLog(n) \/ PollDone(n)

Spec == Init /\ [][Next]_vars

(* The Go scheduler runs every runnable goroutine eventually, and every library
   call and sleep returns: weak fairness of main and of each polling goroutine.
   Nothing is assumed of the environment. *)
FairSpec ==
    /\ Spec
    /\ WF_vars(MainStep)
    /\ \A n \in Nodes : WF_vars(PollStep(n))

----------------------------------------------------------------------------
(* Reading the trace *)

LoopOp(loop) == IF loop = "put" THEN "PutValue" ELSE "GetValue"

IsCall(e, loop)  == e.op = LoopOp(loop)
IsSleep(e, loop) == e.op = "Sleep" /\ e.res = loop

(* the results of the loop's library calls, in order *)
Res(loop) ==
    LET calls == SelectSeq(trace, LAMBDA e : IsCall(e, loop))
    IN  [i \in 1..Len(calls) |-> calls[i].res]

Sleeps(loop) == {i \in 1..Len(trace) : IsSleep(trace[i], loop)}

NoneOk(r) == \A i \in 1..Len(r) : r[i] # NoErr

AllFailed(loop) == NoneOk(Res(loop))

(* the attempt of the first success in results r, 0 when none succeeded *)
FirstOkIn(r) ==
    LET ok == {i \in 1..Len(r) : r[i] = NoErr}
    IN  IF ok = {} THEN 0 ELSE CHOOSE i \in ok : \A j \in ok : i <= j

FirstOk(loop) == FirstOkIn(Res(loop))

Running(loop) ==
    IF loop = "put" THEN pc \in {"PutAttempt", "PutSleep"}
                    ELSE pc \in {"GetAttempt", "GetSleep"}

(* the loop was left with main going on to what follows it *)
Succeeded(loop) ==
    IF loop = "put"
      THEN \/ pc \in {"GetInit", "GetAttempt", "GetSleep", "Print", "Return"}
           \/ pc = "exited" /\ fatal.step \in {"retrieve", "none"} /\ Len(Res("put")) > 0
      ELSE \/ pc \in {"Print", "Return"}
           \/ pc = "exited" /\ exitCode = 0

(* the loop ended in logger.Fatalf *)
Failed(loop) ==
    /\ pc = "exited"
    /\ fatal.step = IF loop = "put" THEN "store" ELSE "retrieve"

Loops == {"put", "get"}

----------------------------------------------------------------------------
(* C1 *)

RetrySuccessAt(loop) ==
    LET r  == Res(loop)
        n  == FirstOkIn(r)
        sl == Cardinality(Sleeps(loop))
    IN  /\ n # 0 =>
              /\ n <= maxRetries
              /\ Len(r) = n
              /\ sl = n - 1
              /\ Succeeded(loop)
        /\ (Len(r) \in 1..(maxRetries - 1) /\ NoneOk(r)) =>
              /\ Running(loop)
              /\ sl \in {Len(r) - 1, Len(r)}

\* C1: in the put loop and in the get loop, when the library call fails on the
\* first n-1 attempts and succeeds on attempt n (1 <= n <= maxRetries), the loop
\* ends in success after exactly n calls and exactly n-1 sleeps; fewer than
\* maxRetries failures never end the loop.
C1_SuccessAfterNAttempts == \A loop \in Loops : RetrySuccessAt(loop)

C1_Witness ==
    /\ Res("put") = <<ErrTransient, NoErr>>
    /\ Len(Res("get")) = 3
    /\ FirstOk("get") = 3
    /\ Cardinality(Sleeps("put")) = 1
    /\ Cardinality(Sleeps("get")) = 2
    /\ pc = "Print"

----------------------------------------------------------------------------
(* C2 *)

RetryExhausted(loop) ==
    LET r == Res(loop)
    IN  /\ (Len(r) >= maxRetries /\ NoneOk(r)) =>
              /\ Len(r) = maxRetries
              /\ Failed(loop)
        /\ Failed(loop) =>
              /\ Len(r) = maxRetries
              /\ NoneOk(r)
              /\ fatal.cause = r[Len(r)]
              /\ fatal.attempts = Len(r)

\* C2: in the put loop and in the get loop, when the library call fails on every
\* attempt, the loop makes exactly maxRetries calls and then ends in the fatal
\* error, which carries the error of the last attempt and the attempt count.
C2_ExhaustedAfterMaxRetries == \A loop \in Loops : RetryExhausted(loop)

C2_Witness ==
    /\ Failed("get")
    /\ Res("get") = <<ErrTransient, ErrTransient, ErrNotFound>>
    /\ fatal.cause = ErrNotFound
    /\ fatal.attempts = 3

----------------------------------------------------------------------------
(* C3 *)

AttemptPc(loop) == IF loop = "put" THEN "PutAttempt" ELSE "GetAttempt"

DelayOnlyBetweenAttempts(loop) ==
    /\ \A i \in Sleeps(loop) :
          /\ i > 1
          /\ IsCall(trace[i - 1], loop)
          /\ trace[i - 1].res # NoErr
          /\ trace[i - 1].n < maxRetries
          /\ IF i = Len(trace) THEN pc = AttemptPc(loop)
                               ELSE IsCall(trace[i + 1], loop)
    /\ \A i \in 1..Len(trace) :
          (IsCall(trace[i], loop) /\ trace[i].res # NoErr /\ trace[i].n >= maxRetries)
             => i = Len(trace)
    /\ \A i \in 1..Len(trace) : \A j \in (i + 1)..Len(trace) :
          (IsCall(trace[i], loop) /\ trace[i].res = NoErr)
             => ~IsCall(trace[j], loop) /\ ~IsSleep(trace[j], loop)

\* C3: in both retry loops every sleep stands between a failed attempt and the
\* next attempt of the same loop: nothing follows the final failed attempt, and
\* after the first successful attempt the loop makes no call and no sleep.
C3_DelayOnlyBetweenAttempts == \A loop \in Loops : DelayOnlyBetweenAttempts(loop)

C3_Witness ==
    /\ Cardinality(Sleeps("put")) = 2
    /\ Cardinality(Sleeps("get")) = 2
    /\ Failed("get")

----------------------------------------------------------------------------
(* C4 *)

(* wg.Wait() has returned *)
PastWait ==
    \/ pc \in {"PutInit", "PutAttempt", "PutSleep", "GetInit", "GetAttempt", "GetSleep",
               "Print", "Return"}
    \/ pc = "exited" /\ (fatal.step \in {"store", "retrieve"} \/ exitCode = 0)

PutOrGetIssued == \E i \in 1..Len(trace) : trace[i].op \in {"PutValue", "GetValue"}

JoinAfterAllObserved ==
    (PastWait \/ PutOrGetIssued) =>
        \A n \in Nodes : lastRead[n] = "nonempty" /\ gpc[n] = "done"

\* C4: wg.Wait returns only after each of the two polling goroutines has read a
\* non-empty routing table and finished; while one node's routing table stays
\* empty the join does not return and no PutValue or GetValue is issued.
C4_JoinWaitsForAllNodes ==
    /\ []JoinAfterAllObserved
    /\ \A n \in Nodes : [](rtSize[n] = 0) => [](~PastWait /\ ~PutOrGetIssued)

C4_Witness ==
    /\ pc = "PutInit"
    /\ pollDelays[1] = 0
    /\ pollDelays[2] > 0
    /\ \A n \in Nodes : lastRead[n] = "nonempty"

----------------------------------------------------------------------------
(* C5 *)

PollFinished(n) == gpc[n] \in {"log", "return", "done"}

PollFinishedOnlyNonEmpty ==
    \A n \in Nodes :
        /\ PollFinished(n) => lastRead[n] = "nonempty"
        /\ (lastRead[n] = "nonempty" /\ pollDelays[n] = 0) => PollFinished(n)
        /\ gpc[n] = "sleep" => lastRead[n] = "empty"

PollDelayOnlyWhenEmpty ==
    \A n \in Nodes :
        pollDelays'[n] # pollDelays[n] => (lastRead[n] = "empty" /\ ~PollFinished(n))

\* C5: a polling goroutine leaves its loop only after its loop test read a
\* routing-table size greater than 0, it sleeps only after a test that read 0,
\* and when the first test already reads a size greater than 0 it finishes
\* without having slept.
C5_PollEndsOnNonEmpty ==
    /\ []PollFinishedOnlyNonEmpty
    /\ [][PollDelayOnlyWhenEmpty]_vars

C5_Witness ==
    /\ gpc[1] = "done"
    /\ pollDelays[1] = 0
    /\ gpc[2] = "done"
    /\ pollDelays[2] > 0

----------------------------------------------------------------------------
(* C6 *)

----------------------------------------------------------------------------
(* C8 *)

IsGet(i, e) == trace[i].op = "GetValue" /\ trace[i].res = e

(* the failed get attempt at trace position i is handled as a retriable failure *)
RetriedLikeAnyFailure(i) ==
    IF trace[i].n < maxRetries
      THEN IF i = Len(trace)
             THEN pc = "GetSleep"
             ELSE /\ IsSleep(trace[i + 1], "get")
                  /\ IF i + 1 = Len(trace)
                       THEN pc = "GetAttempt"
                       ELSE trace[i + 2].op = "GetValue" /\ trace[i + 2].n = trace[i].n + 1
      ELSE /\ i = Len(trace)
           /\ Failed("get")
           /\ fatal.cause = trace[i].res
           /\ fatal.attempts = maxRetries

----------------------------------------------------------------------------
(* C9 *)

----------------------------------------------------------------------------
(* C10 *)

Verified ==
    \E i \in 1..Len(trace) : trace[i].op = "Connectedness" /\ trace[i].res = "Connected"

(* the lifecycle state of node n *)
NodeState(n) ==
    IF hostState[n] = "closed" THEN "Closed"
    ELSE IF PollFinished(n) THEN "Ready"
    ELSE IF Verified THEN "Connected"
    ELSE IF bootstrapped[n] THEN "Bootstrapped"
    ELSE IF dhtInit[n] THEN "Created"
    ELSE "None"

Rank(st) ==
    CASE st = "None"         -> 0
      [] st = "Created"      -> 1
      [] st = "Bootstrapped" -> 2
      [] st = "Connected"    -> 3
      [] st = "Ready"        -> 4
      [] st = "Closed"       -> 5

LifecycleStep ==
    \A n \in Nodes :
        \/ Rank(NodeState(n))' = Rank(NodeState(n))
        \/ Rank(NodeState(n))' = Rank(NodeState(n)) + 1

Happened(op, n, res, before) ==
    \E j \in 1..(before - 1) : trace[j] = Event(op, n, res)

PutGetOnlyWhenReady ==
    \A i \in 1..Len(trace) :
        trace[i].op \in {"PutValue", "GetValue"} =>
            /\ \A n \in Nodes : Happened("Bootstrap", n, NoErr, i)
            /\ \E c \in 1..(i - 1) :
                  /\ trace[c] = Event("Connect", 2, NoErr)
                  /\ \E v \in (c + 1)..(i - 1) :
                        trace[v] = Event("Connectedness", 2, "Connected")
            /\ \A n \in Nodes : lastRead[n] = "nonempty" /\ Rank(NodeState(n)) >= 4

\* C10: each node's lifecycle state only ever moves one step forward in the
\* order None, Created, Bootstrapped, Connected, Ready, Closed, and no PutValue
\* or GetValue is issued before both nodes were bootstrapped, the connection was
\* made and then verified, and both polling goroutines read a non-empty routing
\* table.
C10_LifecycleOrder ==
    /\ [][LifecycleStep]_vars
    /\ []PutGetOnlyWhenReady

C10_Witness ==
    /\ pc = "exited"
    /\ exitCode = 0
    /\ \A n \in Nodes : NodeState(n) = "Closed"
    /\ PutOrGetIssued

----------------------------------------------------------------------------
(* C11 *)

Checks == {i \in 1..Len(trace) : trace[i].op = "Connectedness"}

ConnectCalls == {i \in 1..Len(trace) : trace[i].op = "Connect"}

PastVerify == pc \notin {"NewHost1", "NewHost2", "NewDHT1", "NewDHT2", "Bootstrap1",
                         "Bootstrap2", "ParseAddr", "Connect", "Verify"}

\* C11: after host2.Connect returned success the connectedness of host1 is read
\* exactly once, right after the connect; when it does not read "Connected" the
\* process ends there with the fatal error: no second connect, no second check,
\* no polling goroutine started, no PutValue and no GetValue.
C11_VerifyOnceFailFast ==
    /\ Cardinality(Checks) <= 1
    /\ Cardinality(ConnectCalls) <= 1
    /\ pc = "Verify" => Checks = {}
    /\ (PastVerify /\ fatal.step \in {"none", "verify connection", "store", "retrieve"})
          => Cardinality(Checks) = 1
    /\ \A i \in Checks :
          /\ i > 1
          /\ trace[i - 1] = Event("Connect", 2, NoErr)
          /\ trace[i].res # "Connected" =>
                /\ i = Len(trace)
                /\ pc = "exited"
                /\ exitCode = 1
                /\ fatal.step = "verify connection"
                /\ \A n \in Nodes : gpc[n] = "idle" /\ lastRead[n] = "none"
                /\ wg = 0

C11_Witness ==
    /\ pc = "exited"
    /\ fatal.step = "verify connection"
    /\ trace[Len(trace)] = Event("Connectedness", 2, "NotConnected")
    /\ trace[Len(trace) - 1] = Event("Connect", 2, NoErr)

----------------------------------------------------------------------------
(* C12 *)

SetupOps == {"libp2p.New", "dht.New", "Bootstrap", "NewMultiaddr", "Connect",
             "Connectedness"}

OkRes(op) == IF op = "Connectedness" THEN "Connected" ELSE NoErr

SetupFailedAt(i) == trace[i].op \in SetupOps /\ trace[i].res # OkRes(trace[i].op)

ExhaustedAt(i) ==
    /\ trace[i].op \in {"PutValue", "GetValue"}
    /\ trace[i].res # NoErr
    /\ trace[i].n = maxRetries

(* the setup steps, in program order *)
SetupSteps ==
    << <<"libp2p.New", 1>>, <<"libp2p.New", 2>>, <<"dht.New", 1>>, <<"dht.New", 2>>,
       <<"Bootstrap", 1>>, <<"Bootstrap", 2>>, <<"NewMultiaddr", 2>>, <<"Connect", 2>>,
       <<"Connectedness", 2>> >>

AllSetupSucceeded ==
    /\ Len(trace) >= Len(SetupSteps)
    /\ \A i \in 1..Len(SetupSteps) :
          trace[i] = Event(SetupSteps[i][1], SetupSteps[i][2], OkRes(SetupSteps[i][1]))

ExitStatusRule ==
    /\ pc = "exited" =>
          /\ exitCode \in {0, 1}
          /\ (exitCode = 0) = (AllSetupSucceeded /\ FirstOk("put") # 0 /\ FirstOk("get") # 0)
    /\ \A i \in 1..Len(trace) :
          (SetupFailedAt(i) \/ ExhaustedAt(i)) =>
              /\ i = Len(trace)
              /\ pc = "exited"
              /\ exitCode = 1
    /\ \A i \in 1..Len(trace) : \A j \in 1..Len(trace) :
          (trace[i].op \in SetupOps /\ trace[i].op = trace[j].op /\ trace[i].n = trace[j].n)
              => i = j

\* C12: the process ends with status 0 exactly when every setup step succeeded
\* and both retry loops had a successful attempt; a failed setup step (host
\* creation, DHT initialisation, bootstrap, address parsing, connect, connection
\* check) or a failed last attempt of the put or get loop is the last thing the
\* process does and ends it with status 1; no setup step is made twice; an ended
\* process takes no further step.
C12_ExitStatus ==
    /\ []ExitStatusRule
    /\ [][pc = "exited" => UNCHANGED vars]_vars

C12_Witness ==
    /\ pc = "exited"
    /\ exitCode = 1
    /\ fatal.step = "bootstrap DHT"
    /\ Len(trace) = 6
    /\ trace[6].op = "Bootstrap"
    /\ trace[6].res # NoErr

----------------------------------------------------------------------------
(* C13 *)

\* C13: when the process has ended, on the normal path and on every fatal
\* path, no host that was created is still open: each was closed first.
C13_CreatedNodesClosedAtExit ==
    pc = "exited" => \A n \in Nodes : hostState[n] # "open"

----------------------------------------------------------------------------
(* C15 *)

Puts == {i \in 1..Len(trace) : trace[i].op = "PutValue"}
Gets == {i \in 1..Len(trace) : trace[i].op = "GetValue"}

\* C15: every PutValue call precedes every GetValue call, a GetValue call is
\* made only after a PutValue call returned nil, and when the put retries are
\* exhausted no GetValue call is made.
C15_PutBeforeGet ==
    /\ \A i \in Puts : \A j \in Gets : i < j
    /\ \A j \in Gets : \E i \in Puts : i < j /\ trace[i].res = NoErr
    /\ (pc \in {"GetInit", "GetAttempt", "GetSleep"}) => FirstOk("put") # 0
    /\ (Len(Res("put")) >= maxRetries /\ AllFailed("put")) => (Gets = {} /\ pc = "exited")

C15_Witness ==
    /\ Res("put") = <<ErrOther, ErrTransient, NoErr>>
    /\ Res("get") = <<ErrNotFound, NoErr>>

----------------------------------------------------------------------------
(* C16 *)

PollLocal(n) == <<gpc[n], lastRead[n], pollDelays[n]>>

JoinCounter ==
    /\ wg >= 0
    /\ (\E n \in Nodes : gpc[n] # "idle") => wg = Cardinality({n \in Nodes : gpc[n] # "done"})

PollsIndependent ==
    /\ \A n \in Nodes :
          /\ (gpc[n] # "idle" /\ PollLocal(n)' # PollLocal(n)) =>
                /\ \A m \in Nodes \ {n} : PollLocal(m)' = PollLocal(m)
                /\ rtSize' = rtSize
          /\ (gpc[n] = "test" /\ gpc'[n] # "test") =>
                /\ lastRead'[n] = IF rtSize[n] = 0 THEN "empty" ELSE "nonempty"
                /\ gpc'[n] = IF rtSize[n] = 0 THEN "sleep" ELSE "log"
          /\ gpc[n] = "done" => gpc'[n] = "done"
    /\ wg' # wg =>
          \/ pc = "Spawn"
          \/ /\ wg' = wg - 1
             /\ Cardinality({n \in Nodes : gpc[n] = "return" /\ gpc'[n] = "done"}) = 1

\* C16: under every interleaving a step of one polling goroutine changes nothing
\* of the other goroutine's state and no routing table, its loop test reads its
\* own node's routing-table size, each goroutine decrements the join counter
\* exactly once, when it ends, and the counter is never below zero.
C16_PollsIndependent ==
    /\ []JoinCounter
    /\ [][PollsIndependent]_vars

C16_Witness ==
    /\ pc = "Wait"
    /\ wg = 1
    /\ gpc[1] = "sleep"
    /\ gpc[2] = "done"
    /\ rtSize[1] = 0
    /\ rtSize[2] > 0

----------------------------------------------------------------------------
(* C17 *)

DeadlineShared ==
    /\ (deadline' = "armed" /\ deadline # "armed") => (pc = "GetInit" /\ deadline = "none")
    /\ (deadline = "expired" /\ Running("get")) =>
          /\ deadline' = "expired"
          /\ Running("get")' \/ Failed("get")'
          /\ \A i \in Gets' \ Gets : trace'[i].res # NoErr

\* C17: the get deadline is armed once, before the first GetValue call, and never
\* again; once it has expired while the get loop runs, no GetValue call
\* succeeds, and the loop ends, in the exhausted-retries failure.
C17_SharedDeadline ==
    /\ [](Gets # {} => deadline # "none")
    /\ [][DeadlineShared]_vars
    /\ (deadline = "expired" /\ Running("get")) ~> Failed("get")

C17_Witness ==
    /\ Failed("get")
    /\ deadline = "expired"
    /\ Res("get") = <<ErrNotFound, DeadlineExceeded, DeadlineExceeded>>

----------------------------------------------------------------------------
(* C18 *)

SetupFailure == pc = "exited" /\ fatal.step \notin {"none", "store", "retrieve"}

\* C18: under weak fairness of main and of the two polling goroutines, when no
\* setup step fails and both routing tables eventually become and stay
\* non-empty, wg.Wait eventually returns and the process eventually ends; at
\* most maxRetries PutValue calls and at most maxRetries GetValue calls are made.
C18_Terminates ==
    /\ ([]~SetupFailure /\ \A n \in Nodes : <>[](rtSize[n] > 0))
          => (<>PastWait /\ <>(pc = "exited"))
    /\ [](Cardinality(Puts) <= maxRetries /\ Cardinality(Gets) <= maxRetries)

C18_Witness ==
    /\ pc = "exited"
    /\ exitCode = 0
    /\ Cardinality(Puts) = maxRetries
    /\ Cardinality(Gets) = maxRetries
    /\ \A n \in Nodes : pollDelays[n] > 0

====
